---- MODULE Spec2Model ----
(***************************************************************************)
(* Invoice-app: the invoice number allocator (getNextInvoiceNumber), the   *)
(* pages that read and write the "settings" and "invoices" collections,    *)
(* the totals calculator (calculateInvoiceTotals), and the document        *)
(* renderer (generatePdf) with its formatters, and the item editor of the  *)
(* new-invoice and edit-invoice forms with its totals effect.              *)
(*                                                                         *)
(* Strings are sequences of one-character strings, so that formatting      *)
(* (toString, padStart), parsing (parseInt) and the string order of        *)
(* Firestore's orderBy are computed as the code computes them.             *)
(* Numbers of the totals calculator are exact rationals [n, d]; d = 0 is   *)
(* a value that is not a number (undefined / NaN).                         *)
(* A rendered document is the sequence of the drawing calls generatePdf    *)
(* makes on the jsPDF document, each with the page it lands on.            *)
(***************************************************************************)
EXTENDS Integers, Sequences, FiniteSets, TLC

\* ---------------------------------------------------------------- bounds
\* browser sessions (one signed-up user each)
NumSessions == 2
\* invoices created in one behaviour
MaxInvoices == 2
\* largest value typed into the settings form
MaxCounter == 2
\* items of a list handed to the totals calculator
MaxItems == 2
\* calls of generatePdf in one behaviour
MaxRenders == 2
\* ticks of the wall clock in one behaviour
MaxClock == 1
\* pages the item table can span
MaxPages == 2
\* invoice records written by the forms in one behaviour
MaxWritten == 1

Sessions == 1..NumSessions

VARIABLES
  settings,     \* collection "settings": uid -> [exists, nextInvoiceNumber]
  invoices,     \* collection "invoices": set of [id, invoiceNumber, status]
  pc,           \* position of each session's NewInvoicePage
  form,         \* form values of each session's NewInvoicePage
  log,          \* history: every invoice creation that succeeded, in order
  base,         \* history: Len(log) when the session's proposal was computed
  clean,        \* history: that call's reads succeeded and no write followed
  items,        \* argument of calculateInvoiceTotals
  taxRate,      \* argument of calculateInvoiceTotals
  totals,       \* result of calculateInvoiceTotals ([done |-> FALSE] before)
  pdfInvoice,   \* the invoice record handed to generatePdf
  pdfSettings,  \* the company settings record handed to generatePdf
  layout,       \* what autoTable does with the item table of pdfInvoice
  clock,        \* the wall clock (new Date())
  docs,         \* the documents generatePdf produced, in order
  editor,       \* the invoice form on display: its values and its effect
  written       \* the invoice records the forms wrote

dbVars == <<settings, invoices>>
pageVars == <<pc, form>>
histVars == <<log, base, clean>>
calcVars == <<items, taxRate, totals>>
pdfVars == <<pdfInvoice, pdfSettings, layout, clock, docs>>
formVars == <<editor, written>>
vars == <<settings, invoices, pc, form, log, base, clean,
          items, taxRate, totals,
          pdfInvoice, pdfSettings, layout, clock, docs,
          editor, written>>

\* --------------------------------------------------------------- strings
Digits == <<"0", "1", "2", "3", "4", "5", "6", "7", "8", "9">>

IsDigit(c) == \E i \in 1..10 : Digits[i] = c

DigitValue(c) == (CHOOSE i \in 1..10 : Digits[i] = c) - 1

\* code unit of a character (the characters invoice numbers are made of)
CharCode(c) ==
  CASE c = "-" -> 45
    [] IsDigit(c) -> 48 + DigitValue(c)
    [] c = "I" -> 73
    [] c = "N" -> 78
    [] c = "V" -> 86
    [] OTHER -> 88

\* a < b in the order of orderBy("invoiceNumber") on string fields
RECURSIVE StrLess(_, _)
StrLess(a, b) ==
  IF b = <<>> THEN FALSE
  ELSE IF a = <<>> THEN TRUE
  ELSE IF CharCode(Head(a)) # CharCode(Head(b))
       THEN CharCode(Head(a)) < CharCode(Head(b))
  ELSE StrLess(Tail(a), Tail(b))

\* Number.prototype.toString() of an integer
RECURSIVE toString(_)
toString(n) ==
  IF n < 0 THEN <<"-">> \o toString(0 - n)
  ELSE IF n < 10 THEN <<Digits[n + 1]>>
  ELSE toString(n \div 10) \o <<Digits[(n % 10) + 1]>>

\* String.prototype.padStart(len, "0")
RECURSIVE padStart(_, _)
padStart(s, len) ==
  IF Len(s) >= len THEN s ELSE padStart(<<"0">> \o s, len)

\* String.prototype.startsWith
startsWith(s, p) == Len(s) >= Len(p) /\ SubSeq(s, 1, Len(p)) = p

\* String.prototype.replace(p, ""): the first occurrence of p is removed
RECURSIVE replaceFirst(_, _)
replaceFirst(s, p) ==
  IF Len(s) < Len(p) THEN s
  ELSE IF startsWith(s, p) THEN SubSeq(s, Len(p) + 1, Len(s))
  ELSE <<Head(s)>> \o replaceFirst(Tail(s), p)

RECURSIVE DigitPrefix(_)
DigitPrefix(s) ==
  IF s = <<>> \/ ~IsDigit(Head(s)) THEN <<>>
  ELSE <<Head(s)>> \o DigitPrefix(Tail(s))

RECURSIVE DigitsValue(_)
DigitsValue(ds) ==
  IF ds = <<>> THEN 0
  ELSE 10 * DigitsValue(SubSeq(ds, 1, Len(ds) - 1)) + DigitValue(ds[Len(ds)])

\* Number.parseInt(s, 10): optional sign, then the leading digits; NaN if none
parseInt(s) ==
  LET neg == s # <<>> /\ Head(s) = "-"
      body == IF neg THEN Tail(s) ELSE s
      ds == DigitPrefix(body)
  IN IF ds = <<>> THEN [nan |-> TRUE, value |-> 0]
     ELSE [nan |-> FALSE,
           value |-> IF neg THEN 0 - DigitsValue(ds) ELSE DigitsValue(ds)]

\* --------------------------------------------------------------- numbers
\* A number is an exact rational [n, d] with d > 0 in lowest terms; d = 0 is
\* a value that is not a number: NaN, or the missing value undefined.
RECURSIVE GCD(_, _)
GCD(a, b) == IF b = 0 THEN a ELSE GCD(b, a % b)

Abs(x) == IF x < 0 THEN 0 - x ELSE x

NaN == [n |-> 0, d |-> 0]

Undefined == [n |-> 1, d |-> 0]

Rat(n, d) ==
  IF d = 0 THEN NaN
  ELSE LET g == GCD(Abs(n), Abs(d))
           sg == IF d < 0 THEN 0 - 1 ELSE 1
       IN [n |-> sg * (n \div g), d |-> sg * (d \div g)]

Num(k) == [n |-> k, d |-> 1]

Zero == Num(0)

IsNumber(a) == a.d # 0

\* a + b
RAdd(a, b) ==
  IF IsNumber(a) /\ IsNumber(b) THEN Rat(a.n * b.d + b.n * a.d, a.d * b.d)
  ELSE NaN

\* a * b
RMul(a, b) ==
  IF IsNumber(a) /\ IsNumber(b) THEN Rat(a.n * b.n, a.d * b.d) ELSE NaN

\* a / b (b is never zero where the code divides)
RDiv(a, b) ==
  IF IsNumber(a) /\ IsNumber(b) THEN Rat(a.n * b.d, a.d * b.n) ELSE NaN

\* x || 0
OrZero(x) == IF IsNumber(x) /\ x.n # 0 THEN x ELSE Zero

\* ---------------------------------------------------- totals calculator
NoTotals == [done |-> FALSE, subtotal |-> Zero, tax |-> Zero,
             totalAmount |-> Zero]

\* items.reduce((sum, item) => sum + (item.total || 0), 0)
RECURSIVE reduceTotals(_, _)
reduceTotals(its, sum) ==
  IF its = <<>> THEN sum
  ELSE reduceTotals(Tail(its), RAdd(sum, OrZero(Head(its).total)))

\* mutant: the tax rate is used as a fraction, not as a percentage
calculateInvoiceTotals_fraction(its, rate) ==
  LET r == IF rate = Undefined THEN Zero ELSE rate
      subtotal == reduceTotals(its, Zero)
      tax == RMul(subtotal, r)
      totalAmount == RAdd(subtotal, tax)
  IN [done |-> TRUE, subtotal |-> subtotal, tax |-> tax,
      totalAmount |-> totalAmount]

\* calculateInvoiceTotals(items, taxRate = 0)
calculateInvoiceTotals(its, rate) ==
  LET r == IF rate = Undefined THEN Zero ELSE rate
      subtotal == reduceTotals(its, Zero)
      tax == RMul(subtotal, RDiv(r, Num(100)))
      totalAmount == RAdd(subtotal, tax)
  IN [done |-> TRUE, subtotal |-> subtotal, tax |-> tax,
      totalAmount |-> totalAmount]

\* ------------------------------------------------------------- allocator
INV == <<"I", "N", "V", "-">>

\* mutant: the number is not padded
FormatInvoiceNumber_unpadded(n) == INV \o toString(n)

\* `INV-${n.toString().padStart(4, "0")}`
FormatInvoiceNumber(n) == INV \o padStart(toString(n), 4)

\* mutant: the numbering starts at zero
DefaultFallback_zero == INV \o <<"0", "0", "0", "0">>

\* return "INV-0001" at the end of the try block
DefaultFallback == INV \o <<"0", "0", "0", "1">>

\* mutant: the catch block returns no number
CatchFallback_empty == <<>>

\* return "INV-0001" in the catch block
CatchFallback == INV \o <<"0", "0", "0", "1">>

NoSettings == [exists |-> FALSE, nextInvoiceNumber |-> 0]

\* getDocs(query(collection(db, "settings"))): the documents in id order
SettingsSnapshot(coll) ==
  SelectSeq([u \in 1..NumSessions |-> coll[u]], LAMBDA d : d.exists)

\* settings?.nextInvoiceNumber is truthy in the first settings document
HasStoredCounter(snap) == snap # <<>> /\ snap[1].nextInvoiceNumber # 0

\* getDocs(query(collection(db, "invoices"),
\*               orderBy("invoiceNumber", "desc"), limit(1)))
InvoicesSnapshot(coll) ==
  IF coll = {} THEN <<>>
  ELSE <<CHOOSE d \in coll :
           \A e \in coll : ~StrLess(d.invoiceNumber, e.invoiceNumber)>>

\* the fallback on the highest existing invoice number
FromLastInvoice(snap) ==
  IF snap = <<>> THEN DefaultFallback
  ELSE LET lastInvoiceNumber == snap[1].invoiceNumber
       IN IF lastInvoiceNumber # <<>> /\ startsWith(lastInvoiceNumber, INV)
          THEN LET numberPart == parseInt(replaceFirst(lastInvoiceNumber, INV))
               IN IF ~numberPart.nan
                  THEN FormatInvoiceNumber(numberPart.value + 1)
                  ELSE DefaultFallback
          ELSE DefaultFallback

\* -------------------------------------------------------------- renderer
\* doc.internal.pageSize of the a4 portrait document, in mm (whole mm)
pageWidth == 210

pageHeight == 297

margin == 20

\* a text is a sequence of strings; the empty text stands for a field that
\* is missing or empty (both are falsy)
Present(txt) == txt # <<>>

\* the text of a JavaScript number (integers and tenths)
NumberText(x) ==
  IF x = Undefined THEN <<"undefined">>
  ELSE IF ~IsNumber(x) THEN <<"NaN">>
  ELSE IF x.d = 1 THEN toString(x.n)
  ELSE LET tenths == (x.n * 10) \div x.d
       IN toString(tenths \div 10) \o <<".">> \o toString(tenths % 10)

\* Number.prototype.toFixed(2) of a number (NaN gives "NaN")
toFixed(x) ==
  IF ~IsNumber(x) THEN <<"NaN">>
  ELSE LET cents == (2 * 100 * Abs(x.n) + x.d) \div (2 * x.d)
           sign == IF x.n < 0 /\ cents # 0 THEN <<"-">> ELSE <<>>
       IN sign \o toString(cents \div 100) \o <<".">>
               \o padStart(toString(cents % 100), 2)

\* getCurrencySymbol(currency)
getCurrencySymbol(currency) ==
  CASE currency = "SAR" -> "SAR-symbol"
    [] currency = "USD" -> "$"
    [] currency = "EUR" -> "EUR-symbol"
    [] currency = "GBP" -> "GBP-symbol"
    [] OTHER -> "$"

\* formatCurrency(amount, currency, symbol): `${symbol} ${amount.toFixed(2)}`;
\* amount.toFixed throws a TypeError when amount is undefined (ok = FALSE)
formatCurrency(amount, currency, symbol) ==
  IF amount = Undefined THEN [ok |-> FALSE, text |-> <<>>]
  ELSE [ok |-> TRUE, text |-> <<symbol, " ">> \o toFixed(amount)]

\* a date value: none, a Firestore Timestamp, a Date, a value that new Date
\* cannot parse, or an object whose toDate throws
NoDate == [kind |-> "absent", day |-> 0]

\* generatePdf.formatDate(date)
formatDate(date, isArabic) ==
  IF date.kind = "absent" THEN <<"N/A">>
  ELSE IF date.kind \in {"unparseable", "throwing"} THEN <<"Invalid Date">>
  ELSE <<IF isArabic THEN "ar-SA" ELSE "en-US">> \o toString(date.day)

\* new Date().toLocaleString(...) at the time of the call
toLocaleString(now, isArabic) ==
  <<IF isArabic THEN "ar-SA" ELSE "en-US">> \o toString(now)

\* isArabic ? ar : en
Label(isArabic, en, ar) == IF isArabic THEN ar ELSE en

\* one call of doc.text
DocText(block, txt, x, y, align, page) ==
  [op |-> "text", block |-> block, text |-> txt, x |-> x, y |-> y,
   w |-> 0, h |-> 0, align |-> align, page |-> page,
   head |-> <<>>, body |-> <<>>, columns |-> <<>>]

\* one call of doc.addImage or doc.rect
DocBox(op, block, x, y, w, h, page) ==
  [op |-> op, block |-> block, text |-> <<>>, x |-> x, y |-> y,
   w |-> w, h |-> h, align |-> "left", page |-> page,
   head |-> <<>>, body |-> <<>>, columns |-> <<>>]

\* the logo, or the company name when there is no logo
HeaderBlock(st, y) ==
  IF st.logo = "ok"
  THEN [instrs |-> <<DocBox("image", "header", margin, y, 50, 20, 1)>>,
        y |-> y + 25]
  ELSE IF st.logo = "bad"
  THEN [instrs |-> <<>>, y |-> y]
  ELSE [instrs |-> <<DocText("header",
                            IF Present(st.companyName) THEN st.companyName
                            ELSE <<"Company Name">>,
                            margin, y, "left", 1)>>,
        y |-> y + 15]

\* the optional company fields in the order of the code, each with its line
CompanyFields(st, isArabic) ==
  << [key |-> "address", value |-> st.address, line |-> st.address],
     [key |-> "email", value |-> st.email,
      line |-> <<Label(isArabic, "Email: ", "albarid: ")>> \o st.email],
     [key |-> "phone", value |-> st.phone,
      line |-> <<Label(isArabic, "Phone: ", "alhatif: ")>> \o st.phone],
     [key |-> "website", value |-> st.website,
      line |-> <<Label(isArabic, "Website: ", "almawqie: ")>> \o st.website],
     [key |-> "taxNumber", value |-> st.taxNumber,
      line |-> <<Label(isArabic, "Tax Number: ", "alraqm aldaribi: ")>>
                 \o st.taxNumber] >>

\* mutant: a line is reserved for every field, present or not
ContactFields_placeholder(st, isArabic) == CompanyFields(st, isArabic)

\* the fields for which the code draws a line: if (settings?.field)
ContactFields(st, isArabic) ==
  SelectSeq(CompanyFields(st, isArabic), LAMBDA f : Present(f.value))

\* company details: one line per field drawn, yPos += 5 after each
ContactBlock(st, isArabic, y) ==
  LET fs == ContactFields(st, isArabic)
      x == IF isArabic THEN pageWidth - margin ELSE margin
      textAlign == IF isArabic THEN "right" ELSE "left"
  IN [instrs |-> [i \in 1..Len(fs) |->
                    DocText(fs[i].key, fs[i].line, x, y + 5 * (i - 1),
                            textAlign, 1)],
      y |-> y + 5 * Len(fs)]

\* invoice details: title, number, date, due date
DetailsBlock(inv, isArabic, y) ==
  LET x == IF isArabic THEN margin ELSE pageWidth - margin
      align == IF isArabic THEN "left" ELSE "right"
  IN [instrs |->
        << DocText("title", <<Label(isArabic, "INVOICE", "fatura")>>,
                   x, y, align, 1),
           DocText("number",
                   <<Label(isArabic, "Invoice Number: ", "raqm alfatura: ")>>
                     \o inv.invoiceNumber,
                   x, y + 10, align, 1),
           DocText("date",
                   <<Label(isArabic, "Date: ", "altaarikh: ")>>
                     \o formatDate(inv.date, isArabic),
                   x, y + 15, align, 1),
           DocText("dueDate",
                   <<Label(isArabic, "Due Date: ", "tarikh alaistihqaq: ")>>
                     \o formatDate(inv.dueDate, isArabic),
                   x, y + 20, align, 1) >>,
      y |-> y + 35]

\* client information
ClientBlock(inv, isArabic, y) ==
  LET x == IF isArabic THEN pageWidth - margin ELSE margin
      textAlign == IF isArabic THEN "right" ELSE "left"
      addr == IF Present(inv.clientAddress)
              THEN <<DocText("clientAddress", inv.clientAddress, x, y + 11,
                             textAlign, 1)>>
              ELSE <<>>
      y2 == y + 11 + 5 * Len(addr)
      mail == IF Present(inv.clientEmail)
              THEN <<DocText("clientEmail",
                             <<Label(isArabic, "Email: ", "albarid: ")>>
                               \o inv.clientEmail,
                             x, y2, textAlign, 1)>>
              ELSE <<>>
  IN [instrs |->
        << DocText("billTo", <<Label(isArabic, "Bill To:", "fatura ila:")>>,
                   x, y, textAlign, 1),
           DocText("clientName", inv.clientName, x, y + 6, textAlign, 1) >>
        \o addr \o mail,
      y |-> y2 + 5 * Len(mail)]

\* the header cells of the item table
tableColumns(isArabic) ==
  << <<Label(isArabic, "Item", "albund")>>,
     <<Label(isArabic, "Quantity", "alkamiya")>>,
     <<Label(isArabic, "Price", "alsier")>>,
     <<Label(isArabic, "Total", "almajmue")>> >>

\* item.total || item.quantity * item.price
ShownLineTotal(item) ==
  IF IsNumber(item.total) /\ item.total.n # 0 THEN item.total
  ELSE RMul(item.quantity, item.price)

\* invoice.items.map(...): the body cells, in the order of tableColumns
tableRows(inv, currency, symbol) ==
  [i \in 1..Len(inv.items) |->
     << inv.items[i].description,
        NumberText(inv.items[i].quantity),
        formatCurrency(inv.items[i].price, currency, symbol).text,
        formatCurrency(ShownLineTotal(inv.items[i]), currency, symbol).text >>]

\* formatCurrency throws for no item of the invoice
tableRowsOk(inv, currency, symbol) ==
  \A i \in 1..Len(inv.items) :
    /\ formatCurrency(inv.items[i].price, currency, symbol).ok
    /\ formatCurrency(ShownLineTotal(inv.items[i]), currency, symbol).ok

\* columnStyles of the autoTable call (cellWidth "auto" is auto = TRUE)
columnStyles ==
  << [auto |-> TRUE, cellWidth |-> 0, halign |-> "inherit"],
     [auto |-> FALSE, cellWidth |-> 20, halign |-> "center"],
     [auto |-> FALSE, cellWidth |-> 35, halign |-> "right"],
     [auto |-> FALSE, cellWidth |-> 35, halign |-> "right"] >>

\* mutant: the catch block draws nothing in place of the table
TableBlock_silent(inv, isArabic, lay, rows, y) ==
  IF lay.throws
  THEN [instrs |-> <<>>, y |-> y + 30 + 50, page |-> 1]
  ELSE [instrs |-> << [op |-> "table", block |-> "table", text |-> <<>>,
                       x |-> margin, y |-> y, w |-> pageWidth - 2 * margin,
                       h |-> 0,
                       align |-> IF isArabic THEN "right" ELSE "left",
                       page |-> 1, head |-> tableColumns(isArabic),
                       body |-> rows, columns |-> columnStyles] >>,
        y |-> lay.finalY + 10,
        page |-> lay.pages]

\* autoTable(doc, ...) in its try/catch (the table may end on a later page,
\* which becomes the current page), then
\* yPos = doc.lastAutoTable?.finalY + 10 || yPos + 50
TableBlock(inv, isArabic, lay, rows, y) ==
  IF lay.throws
  THEN [instrs |-> << DocText("tableError",
                        <<"Error generating table. Please check console for details.">>,
                        margin, y + 10, "left", 1) >>,
        y |-> y + 30 + 50,
        page |-> 1]
  ELSE [instrs |-> << [op |-> "table", block |-> "table", text |-> <<>>,
                       x |-> margin, y |-> y, w |-> pageWidth - 2 * margin,
                       h |-> 0,
                       align |-> IF isArabic THEN "right" ELSE "left",
                       page |-> 1, head |-> tableColumns(isArabic),
                       body |-> rows, columns |-> columnStyles] >>,
        y |-> lay.finalY + 10,
        page |-> lay.pages]

\* mutant: the summary box is anchored to the leading edge
summaryX_leading(isArabic) ==
  IF isArabic THEN pageWidth - margin - 70 ELSE margin

\* const summaryX = isArabic ? margin : pageWidth - margin - 70
summaryX(isArabic) == IF isArabic THEN margin ELSE pageWidth - margin - 70

\* the summary box and its three label/value pairs; formatCurrency throws
\* on the first amount that is undefined and nothing after it is drawn
SummaryBlock(inv, isArabic, currency, symbol, y, page) ==
  LET summaryWidth == 70
      boxX == summaryX(isArabic)
      labelX == IF isArabic THEN boxX + summaryWidth - 5 ELSE boxX + 5
      labelAlign == IF isArabic THEN "right" ELSE "left"
      valueX == IF isArabic THEN boxX + 5 ELSE boxX + summaryWidth - 5
      valueAlign == IF isArabic THEN "left" ELSE "right"
      sub == formatCurrency(inv.subtotal, currency, symbol)
      tax == formatCurrency(inv.tax, currency, symbol)
      tot == formatCurrency(inv.totalAmount, currency, symbol)
      all == << DocBox("rect", "summaryBox", boxX, y, summaryWidth, 45, page),
                DocText("subtotalLabel",
                        <<Label(isArabic, "Subtotal:", "almajmue alfarei:")>>,
                        labelX, y + 10, labelAlign, page),
                DocText("subtotalValue", sub.text, valueX, y + 10, valueAlign,
                        page),
                DocText("taxLabel",
                        <<Label(isArabic, "Tax", "aldariba"), " (">>
                          \o NumberText(inv.taxRate) \o <<"%):">>,
                        labelX, y + 20, labelAlign, page),
                DocText("taxValue", tax.text, valueX, y + 20, valueAlign, page),
                DocText("totalLabel",
                        <<Label(isArabic, "Total:", "almajmue:")>>,
                        labelX, y + 30, labelAlign, page),
                DocText("totalValue", tot.text, valueX, y + 30, valueAlign,
                        page) >>
      drawn == IF ~sub.ok THEN 2 ELSE IF ~tax.ok THEN 4
               ELSE IF ~tot.ok THEN 6 ELSE 7
  IN [ok |-> sub.ok /\ tax.ok /\ tot.ok,
      instrs |-> SubSeq(all, 1, drawn),
      y |-> y + 45]

\* mutant: the notes advance the cursor as if they were one line
NotesBlock_oneLine(inv, isArabic, y, page) ==
  LET x == IF isArabic THEN pageWidth - margin ELSE margin
      textAlign == IF isArabic THEN "right" ELSE "left"
  IN IF Present(inv.notes)
     THEN [instrs |->
             << DocText("notesLabel",
                        <<Label(isArabic, "Notes:", "mulahazat:")>>,
                        x, y, textAlign, page),
                DocText("notes", inv.notes, x, y + 5, textAlign, page) >>,
           y |-> y + 5 + 5 + 10]
     ELSE [instrs |-> <<>>, y |-> y]

\* the notes of the invoice, given as the lines splitTextToSize breaks them
\* into
NotesBlock(inv, isArabic, y, page) ==
  LET x == IF isArabic THEN pageWidth - margin ELSE margin
      textAlign == IF isArabic THEN "right" ELSE "left"
  IN IF Present(inv.notes)
     THEN [instrs |->
             << DocText("notesLabel",
                        <<Label(isArabic, "Notes:", "mulahazat:")>>,
                        x, y, textAlign, page),
                DocText("notes", inv.notes, x, y + 5, textAlign, page) >>,
           y |-> y + 5 + Len(inv.notes) * 5 + 10]
     ELSE [instrs |-> <<>>, y |-> y]

\* the terms and conditions of the settings record, given as the lines
\* they wrap into; yPos += 5 after the heading and nothing after the body
TermsBlock(st, isArabic, y, page) ==
  LET x == IF isArabic THEN pageWidth - margin ELSE margin
      textAlign == IF isArabic THEN "right" ELSE "left"
  IN IF Present(st.termsAndConditions)
     THEN [instrs |->
             << DocText("termsLabel",
                        <<Label(isArabic, "Terms and Conditions:",
                                "alshurut wal'ahkam:")>>,
                        x, y, textAlign, page),
                DocText("terms", st.termsAndConditions, x, y + 5, textAlign,
                        page) >>,
           y |-> y + 5]
     ELSE [instrs |-> <<>>, y |-> y]

\* the footer: one doc.text on the current page
FooterBlock(isArabic, now, page) ==
  << DocText("footer",
             <<Label(isArabic, "Generated on ", "tama 'iinsha'uha fi ")>>
               \o toLocaleString(now, isArabic),
             pageWidth \div 2, pageHeight - 10, "center", page) >>

\* mutant: the artifact name carries no language marker
ArtifactName_nolang(invoiceNumber, isArabic) ==
  <<"Invoice-">> \o invoiceNumber \o <<".pdf">>

\* `Invoice-${invoice.invoiceNumber}-${isArabic ? "AR" : "EN"}.pdf`
ArtifactName(invoiceNumber, isArabic) ==
  <<"Invoice-">> \o invoiceNumber
    \o <<"-", IF isArabic THEN "AR" ELSE "EN", ".pdf">>

\* a call that threw: the drawing calls made before, and nothing saved
Thrown(instrs, isArabic) ==
  [threw |-> TRUE, instrs |-> instrs, name |-> <<>>,
   dir |-> IF isArabic THEN "rtl" ELSE "ltr", pages |-> 1, yPos |-> 0]

\* generatePdf(invoice, settings), with what autoTable does (lay) and the
\* time of the call (now)
generatePdf(inv, st, lay, now) ==
  LET isArabic == st.language = "ar"
      header == HeaderBlock(st, margin)
      contact == ContactBlock(st, isArabic, header.y)
      details == DetailsBlock(inv, isArabic, contact.y + 10)
      client == ClientBlock(inv, isArabic, details.y)
      currency == IF st.currency # "" THEN st.currency ELSE "USD"
      currencySymbol == getCurrencySymbol(currency)
      before == header.instrs \o contact.instrs \o details.instrs
                  \o client.instrs
      table == TableBlock(inv, isArabic, lay,
                          tableRows(inv, currency, currencySymbol),
                          client.y + 10)
      summary == SummaryBlock(inv, isArabic, currency, currencySymbol,
                              table.y, table.page)
      notes == NotesBlock(inv, isArabic, summary.y, table.page)
      terms == TermsBlock(st, isArabic, notes.y, table.page)
  IN IF ~tableRowsOk(inv, currency, currencySymbol)
     THEN Thrown(before, isArabic)
     ELSE IF ~summary.ok
     THEN [Thrown(before \o table.instrs \o summary.instrs, isArabic)
             EXCEPT !.pages = table.page]
     ELSE [threw |-> FALSE,
           instrs |-> before \o table.instrs \o summary.instrs
                        \o notes.instrs \o terms.instrs
                        \o FooterBlock(isArabic, now, table.page),
           name |-> ArtifactName(inv.invoiceNumber, isArabic),
           dir |-> IF isArabic THEN "rtl" ELSE "ltr",
           pages |-> table.page,
           yPos |-> terms.y]

\* ------------------------------------------------- the renderer's inputs
EmptySettings ==
  [language |-> "", logo |-> "none", companyName |-> <<>>, address |-> <<>>,
   email |-> <<>>, phone |-> <<>>, website |-> <<>>, taxNumber |-> <<>>,
   currency |-> "", termsAndConditions |-> <<>>]

OptionalFields == {"address", "email", "phone", "website", "taxNumber"}

\* a settings record holding exactly the optional fields of S
ContactSettings(S) ==
  [language |-> "en", logo |-> "none", companyName |-> <<"Acme">>,
   address |-> IF "address" \in S THEN <<"1 Main St">> ELSE <<>>,
   email |-> IF "email" \in S THEN <<"a@acme.test">> ELSE <<>>,
   phone |-> IF "phone" \in S THEN <<"555-0100">> ELSE <<>>,
   website |-> IF "website" \in S THEN <<"acme.test">> ELSE <<>>,
   taxNumber |-> IF "taxNumber" \in S THEN <<"TN-1">> ELSE <<>>,
   currency |-> "USD", termsAndConditions |-> <<>>]

SettingsChoices ==
  {EmptySettings}
    \cup {ContactSettings(S) : S \in SUBSET OptionalFields}
    \cup {[ContactSettings(OptionalFields) EXCEPT !.logo = l] :
            l \in {"ok", "bad"}}
    \cup {[ContactSettings(OptionalFields) EXCEPT !.currency = c] :
            c \in {"SAR", "EUR", "GBP", "JPY", ""}}
    \cup {[ContactSettings(OptionalFields)
             EXCEPT !.termsAndConditions = <<"Net 30", "No returns">>]}

\* the first invoice of a fresh system: one item, quantity 2, price 50, tax
\* rate 10, numbered by the allocator and totalled by the calculator
FreshItems ==
  << [description |-> <<"Widget">>, quantity |-> Num(2), price |-> Num(50),
      total |-> Num(100)] >>

FreshInvoice ==
  LET t == calculateInvoiceTotals(FreshItems, Num(10))
  IN [invoiceNumber |-> FromLastInvoice(InvoicesSnapshot({})),
      language |-> "en",
      date |-> [kind |-> "timestamp", day |-> 1],
      dueDate |-> [kind |-> "timestamp", day |-> 31],
      clientName |-> <<"Client">>, clientAddress |-> <<>>,
      clientEmail |-> <<>>, items |-> FreshItems, taxRate |-> Num(10),
      subtotal |-> t.subtotal, tax |-> t.tax, totalAmount |-> t.totalAmount,
      notes |-> <<>>, terms |-> <<>>]

\* an invoice created while the settings language was Arabic, with a stored
\* line total that differs from quantity * price
StaleItems ==
  << [description |-> <<"Hours">>, quantity |-> Num(1), price |-> Num(20),
      total |-> Num(25)],
     [description |-> <<"Parts">>, quantity |-> Num(3), price |-> Rat(1, 2),
      total |-> Undefined] >>

ArabicInvoice ==
  LET t == calculateInvoiceTotals(StaleItems, Rat(17, 2))
  IN [FreshInvoice EXCEPT
        !.invoiceNumber = FormatInvoiceNumber(2),
        !.language = "ar",
        !.date = [kind |-> "date", day |-> 2],
        !.dueDate = NoDate,
        !.clientAddress = <<"2 Side St">>,
        !.clientEmail = <<"c@client.test">>,
        !.items = StaleItems, !.taxRate = Rat(17, 2),
        !.subtotal = t.subtotal, !.tax = t.tax,
        !.totalAmount = t.totalAmount,
        !.notes = <<"first line", "second line">>,
        !.terms = <<"Net 15">>]

InvoiceChoices ==
  { FreshInvoice,
    ArabicInvoice,
    [FreshInvoice EXCEPT !.dueDate = [kind |-> "unparseable", day |-> 0]],
    [FreshInvoice EXCEPT !.date = [kind |-> "throwing", day |-> 0],
                         !.subtotal = Undefined],
    [FreshInvoice EXCEPT !.tax = Undefined],
    [FreshInvoice EXCEPT !.totalAmount = Undefined, !.subtotal = NaN] }

\* what autoTable does: it throws, or it lays the table out over some pages
\* and ends it at finalY on the last of them
LayoutChoices ==
  {[throws |-> TRUE, pages |-> 1, finalY |-> 0]}
    \cup {[throws |-> FALSE, pages |-> p,
           finalY |-> IF p = 1 THEN 170 ELSE 60] : p \in 1..MaxPages}
    \cup {[throws |-> FALSE, pages |-> 1, finalY |-> 260]}

\* no document is being rendered
PdfIdle ==
  /\ pdfInvoice = FreshInvoice
  /\ pdfSettings = EmptySettings
  /\ layout = [throws |-> FALSE, pages |-> 1, finalY |-> 170]
  /\ clock = 0
  /\ docs = <<>>

\* ------------------------------------------------------- the item editor
\* the value of a number input that is empty: the empty string
EmptyInput == [n |-> 2, d |-> 0]

\* the number a form value stands for in a product and under z.coerce
ToNumber(v) == IF v = EmptyInput THEN Zero ELSE v

\* emptyInvoiceItem()
emptyInvoiceItem ==
  [description |-> <<>>, quantity |-> Num(1), price |-> Zero, total |-> Zero]

NoEditor ==
  [page |-> "closed", id |-> 0, items |-> <<>>, taxRate |-> Zero,
   subtotal |-> Zero, tax |-> Zero, totalAmount |-> Zero,
   pending |-> FALSE, isCalculating |-> FALSE, runs |-> 0, toast |-> "none"]

\* no form is on display and nothing was written
FormIdle ==
  /\ editor = NoEditor
  /\ written = {}

\* mutant: the line totals are not recomputed
updatedItems_stale(its) == its

\* watchedItems.map((item) => ({...item, total: item.quantity * item.price}))
updatedItems(its) ==
  [i \in 1..Len(its) |->
     [its[i] EXCEPT !.total = RMul(ToNumber(its[i].quantity),
                                   ToNumber(its[i].price))]]

\* mutant: the items are written back on every run
itemsNeedUpdate_always(upd, its) == TRUE

\* updatedItems.some((item, index) => item.total !== watchedItems[index]?.total)
itemsNeedUpdate(upd, its) ==
  \E i \in 1..Len(upd) : upd[i].total # its[i].total \/ ~IsNumber(upd[i].total)

\* ------------------------------------------------------------ the pages
Statuses == {"draft", "pending", "paid"}

EmptyForm == [invoiceNumber |-> <<>>]

Init ==
  /\ settings = [u \in Sessions |-> NoSettings]
  /\ invoices = {}
  /\ pc = [s \in Sessions |-> "closed"]
  /\ form = [s \in Sessions |-> EmptyForm]
  /\ log = <<>>
  /\ base = [s \in Sessions |-> 0]
  /\ clean = [s \in Sessions |-> FALSE]
  /\ items = <<>>
  /\ taxRate = Zero
  /\ totals = NoTotals
  /\ PdfIdle
  /\ FormIdle

\* history, when a collection the allocator reads is written: no allocator
\* call in progress and no proposal on display is known to be current
Disturbed == [s \in Sessions |-> FALSE]

\* NewInvoicePage mounts; fetchInitialData calls getNextInvoiceNumber, which
\* reads the settings collection (readOk: the read does not throw)
fetchInitialData(s, readOk) ==
  /\ pc[s] = "closed"
  /\ base' = [base EXCEPT ![s] = Len(log)]
  /\ clean' = [clean EXCEPT ![s] = readOk]
  /\ IF ~readOk
     THEN /\ form' = [form EXCEPT ![s].invoiceNumber = CatchFallback]
          /\ pc' = [pc EXCEPT ![s] = "open"]
     ELSE LET snap == SettingsSnapshot(settings)
          IN IF HasStoredCounter(snap)
             THEN /\ form' = [form EXCEPT ![s].invoiceNumber =
                                FormatInvoiceNumber(snap[1].nextInvoiceNumber)]
                  /\ pc' = [pc EXCEPT ![s] = "open"]
             ELSE /\ pc' = [pc EXCEPT ![s] = "readInvoices"]
                  /\ UNCHANGED form
  /\ UNCHANGED <<dbVars, log, calcVars, pdfVars, formVars>>

\* getNextInvoiceNumber resumes after the settings read: the invoice scan
getNextInvoiceNumber_scan(s, readOk) ==
  /\ pc[s] = "readInvoices"
  /\ clean' = [clean EXCEPT ![s] = clean[s] /\ readOk]
  /\ form' = [form EXCEPT ![s].invoiceNumber =
                IF readOk THEN FromLastInvoice(InvoicesSnapshot(invoices))
                ELSE CatchFallback]
  /\ pc' = [pc EXCEPT ![s] = "open"]
  /\ base' = [base EXCEPT ![s] = Len(log)]
  /\ UNCHANGED <<dbVars, log, calcVars, pdfVars, formVars>>

\* addDoc(collection(db, "invoices"), invoiceData) succeeds, the page
\* navigates to the invoice list
PersistInvoice(s, st) ==
  /\ invoices' = invoices \cup
       {[id |-> Len(log) + 1,
         invoiceNumber |-> form[s].invoiceNumber,
         status |-> st]}
  /\ log' = Append(log, [number |-> form[s].invoiceNumber,
                         base |-> base[s],
                         quiet |-> clean[s]])
  /\ pc' = [pc EXCEPT ![s] = "closed"]
  /\ form' = [form EXCEPT ![s] = EmptyForm]
  /\ base' = [base EXCEPT ![s] = 0]
  /\ clean' = Disturbed

\* mutant: the submit refuses a number that an existing invoice carries
NewInvoicePage_onSubmit_revalidating(s, signedIn, writeOk, st) ==
  /\ pc[s] = "open"
  /\ Len(log) < MaxInvoices
  /\ IF /\ signedIn
        /\ writeOk
        /\ \A inv \in invoices : inv.invoiceNumber # form[s].invoiceNumber
     THEN PersistInvoice(s, st)
     ELSE UNCHANGED <<invoices, pageVars, histVars>>
  /\ UNCHANGED <<settings, calcVars, pdfVars, formVars>>

\* NewInvoicePage.onSubmit (signedIn: auth.currentUser is set; writeOk:
\* addDoc does not throw; st: the status selected in the form)
NewInvoicePage_onSubmit(s, signedIn, writeOk, st) ==
  /\ pc[s] = "open"
  /\ Len(log) < MaxInvoices
  /\ IF signedIn /\ writeOk
     THEN PersistInvoice(s, st)
     ELSE UNCHANGED <<invoices, pageVars, histVars>>
  /\ UNCHANGED <<settings, calcVars, pdfVars, formVars>>

\* InvoicesPage.handleDeleteInvoice (ok: confirmed and deleteDoc succeeds)
handleDeleteInvoice(inv, ok) ==
  /\ inv \in invoices
  /\ IF ok
     THEN /\ invoices' = invoices \ {inv}
          /\ clean' = Disturbed
     ELSE UNCHANGED <<invoices, clean>>
  /\ UNCHANGED <<settings, pageVars, log, base, calcVars, pdfVars, formVars>>

\* InvoicesPage.handleMarkAsPaid (ok: updateDoc succeeds)
handleMarkAsPaid(inv, ok) ==
  /\ inv \in invoices
  /\ IF ok
     THEN invoices' = (invoices \ {inv}) \cup {[inv EXCEPT !.status = "paid"]}
     ELSE UNCHANGED invoices
  /\ UNCHANGED <<settings, pageVars, histVars, calcVars, pdfVars, formVars>>

\* EditInvoicePage.onSubmit: the invoice number field is read-only, the
\* other fields are written as edited (ok: signed in and updateDoc succeeds)
EditInvoicePage_onSubmit(inv, st, ok) ==
  /\ inv \in invoices
  /\ IF ok
     THEN invoices' = (invoices \ {inv}) \cup {[inv EXCEPT !.status = st]}
     ELSE UNCHANGED invoices
  /\ UNCHANGED <<settings, pageVars, histVars, calcVars, pdfVars, formVars>>

\* SettingsPage.onSubmit by the user of session s with nextInvoiceNumber = n,
\* a positive integer (ok: signed in and the read and the write succeed)
SettingsPage_onSubmit(s, n, ok) ==
  /\ IF ok
     THEN /\ settings' = [settings EXCEPT ![s] =
                            [exists |-> TRUE, nextInvoiceNumber |-> n]]
          /\ log' = [i \in 1..Len(log) |-> [log[i] EXCEPT !.quiet = FALSE]]
          /\ clean' = Disturbed
     ELSE UNCHANGED <<settings, log, clean>>
  /\ UNCHANGED <<invoices, pageVars, base, calcVars, pdfVars, formVars>>

Next ==
  \/ \E s \in Sessions, readOk \in BOOLEAN : fetchInitialData(s, readOk)
  \/ \E s \in Sessions, readOk \in BOOLEAN : getNextInvoiceNumber_scan(s, readOk)
  \/ \E s \in Sessions, signedIn \in BOOLEAN, writeOk \in BOOLEAN,
        st \in Statuses : NewInvoicePage_onSubmit(s, signedIn, writeOk, st)
  \/ \E inv \in invoices, ok \in BOOLEAN : handleDeleteInvoice(inv, ok)
  \/ \E inv \in invoices, ok \in BOOLEAN : handleMarkAsPaid(inv, ok)
  \/ \E inv \in invoices, st \in Statuses, ok \in BOOLEAN :
       EditInvoicePage_onSubmit(inv, st, ok)
  \/ \E s \in Sessions, n \in 1..MaxCounter, ok \in BOOLEAN :
       SettingsPage_onSubmit(s, n, ok)

Spec == Init /\ [][Next]_vars

\* ------------------------------------- the allocator on any collections
\* stored counters and invoice numbers the collections are drawn from
AllocCounters == {7, 1001, 12345}

AllocSuffixes == {42, 9999, 10000}

InitAlloc ==
  /\ settings \in [Sessions -> {NoSettings} \cup
                     {[exists |-> TRUE, nextInvoiceNumber |-> n] :
                        n \in AllocCounters}]
  /\ \E S \in SUBSET AllocSuffixes :
       invoices = {[id |-> n, invoiceNumber |-> FormatInvoiceNumber(n),
                    status |-> "pending"] : n \in S}
  /\ pc = [s \in Sessions |-> "closed"]
  /\ form = [s \in Sessions |-> EmptyForm]
  /\ log = <<>>
  /\ base = [s \in Sessions |-> 0]
  /\ clean = [s \in Sessions |-> FALSE]
  /\ items = <<>>
  /\ taxRate = Zero
  /\ totals = NoTotals
  /\ PdfIdle
  /\ FormIdle

NextAlloc ==
  \/ \E s \in Sessions, readOk \in BOOLEAN : fetchInitialData(s, readOk)
  \/ \E s \in Sessions, readOk \in BOOLEAN : getNextInvoiceNumber_scan(s, readOk)

SpecAlloc == InitAlloc /\ [][NextAlloc]_vars

\* ------------------------------------ the totals calculator on any input
ItemChoices ==
  { [quantity |-> Num(2), price |-> Num(50), total |-> Num(100)],
    [quantity |-> Num(1), price |-> Num(0), total |-> Num(0)],
    [quantity |-> Num(3), price |-> Rat(1, 2), total |-> Rat(3, 2)],
    [quantity |-> Num(1), price |-> Num(20), total |-> Num(25)],
    [quantity |-> Num(2), price |-> Num(7), total |-> Undefined],
    [quantity |-> Num(1), price |-> Num(9), total |-> NaN] }

RateChoices == {Undefined, Num(0), Num(10), Rat(17, 2)}

ItemLists == UNION {[1..k -> ItemChoices] : k \in 0..MaxItems}

InitTotals ==
  /\ settings = [u \in Sessions |-> NoSettings]
  /\ invoices = {}
  /\ pc = [s \in Sessions |-> "closed"]
  /\ form = [s \in Sessions |-> EmptyForm]
  /\ log = <<>>
  /\ base = [s \in Sessions |-> 0]
  /\ clean = [s \in Sessions |-> FALSE]
  /\ items \in ItemLists
  /\ taxRate \in RateChoices
  /\ totals = NoTotals
  /\ PdfIdle
  /\ FormIdle

\* a caller evaluates calculateInvoiceTotals(items, taxRate)
Calculate ==
  /\ ~totals.done
  /\ totals' = calculateInvoiceTotals(items, taxRate)
  /\ UNCHANGED <<dbVars, pageVars, histVars, items, taxRate, pdfVars, formVars>>

NextTotals == Calculate

SpecTotals == InitTotals /\ [][NextTotals]_vars

\* ---------------------------------------------- the renderer on any input
InitPdf ==
  /\ settings = [u \in Sessions |-> NoSettings]
  /\ invoices = {}
  /\ pc = [s \in Sessions |-> "closed"]
  /\ form = [s \in Sessions |-> EmptyForm]
  /\ log = <<>>
  /\ base = [s \in Sessions |-> 0]
  /\ clean = [s \in Sessions |-> FALSE]
  /\ items = <<>>
  /\ taxRate = Zero
  /\ totals = NoTotals
  /\ pdfInvoice \in InvoiceChoices
  /\ pdfSettings \in SettingsChoices
  /\ layout \in LayoutChoices
  /\ clock = 0
  /\ docs = <<>>
  /\ FormIdle

\* handleGeneratePdf: generatePdf(invoice, settings) on the invoice and the
\* settings record as they are now
handleGeneratePdf ==
  /\ Len(docs) < MaxRenders
  /\ docs' = Append(docs, [invoice |-> pdfInvoice, settings |-> pdfSettings,
                           layout |-> layout, at |-> clock,
                           doc |-> generatePdf(pdfInvoice, pdfSettings,
                                               layout, clock)])
  /\ UNCHANGED <<dbVars, pageVars, histVars, calcVars, formVars,
                 pdfInvoice, pdfSettings, layout, clock>>

\* SettingsPage.onSubmit with another language selected
SettingsPage_saveLanguage(l) ==
  /\ pdfSettings.language # l
  /\ pdfSettings' = [pdfSettings EXCEPT !.language = l]
  /\ UNCHANGED <<dbVars, pageVars, histVars, calcVars, formVars,
                 pdfInvoice, layout, clock, docs>>

\* time passes
Tick ==
  /\ clock < MaxClock
  /\ clock' = clock + 1
  /\ UNCHANGED <<dbVars, pageVars, histVars, calcVars, formVars,
                 pdfInvoice, pdfSettings, layout, docs>>

NextPdf ==
  \/ handleGeneratePdf
  \/ \E l \in {"en", "ar"} : SettingsPage_saveLanguage(l)
  \/ Tick

SpecPdf == InitPdf /\ [][NextPdf]_vars

\* -------------------------------------------- the forms and their effect
\* values a number input can hold: a number, or nothing
QuantityChoices == {Num(1), Num(2), EmptyInput}

PriceChoices == {Zero, Num(50), EmptyInput}

TaxRateChoices == {Zero, Num(10)}

\* the products of the catalogue
Products == {[name |-> <<"Widget">>, price |-> Num(50)]}

idleVars == <<dbVars, pageVars, histVars, calcVars, pdfVars>>

InitForm ==
  /\ settings = [u \in Sessions |-> NoSettings]
  /\ invoices = {}
  /\ pc = [s \in Sessions |-> "closed"]
  /\ form = [s \in Sessions |-> EmptyForm]
  /\ log = <<>>
  /\ base = [s \in Sessions |-> 0]
  /\ clean = [s \in Sessions |-> FALSE]
  /\ items = <<>>
  /\ taxRate = Zero
  /\ totals = NoTotals
  /\ PdfIdle
  /\ FormIdle

\* a form value changed: React runs the totals effect again before it
\* handles the next event
Edited(e) == [e EXCEPT !.pending = TRUE, !.runs = 0]

\* NewInvoicePage mounts with the default values of its form
NewInvoicePage_mount ==
  /\ editor.page = "closed"
  /\ editor' = Edited([NoEditor EXCEPT !.page = "new",
                                        !.items = <<emptyInvoiceItem>>])
  /\ UNCHANGED <<idleVars, written>>

\* EditInvoicePage.fetchInvoice: form.reset(formattedInvoice)
EditInvoicePage_fetchInvoice(rec) ==
  /\ editor.page = "closed"
  /\ rec \in written
  /\ editor' =
       Edited([NoEditor EXCEPT
                 !.page = "edit",
                 !.id = rec.id,
                 !.items =
                   [i \in 1..Len(rec.items) |->
                      [description |-> rec.items[i].description,
                       quantity |-> IF OrZero(rec.items[i].quantity) = Zero
                                    THEN Num(1) ELSE rec.items[i].quantity,
                       price |-> OrZero(rec.items[i].price),
                       total |-> OrZero(rec.items[i].total)]],
                 !.taxRate = OrZero(rec.taxRate),
                 !.subtotal = OrZero(rec.subtotal),
                 !.tax = OrZero(rec.tax),
                 !.totalAmount = OrZero(rec.totalAmount)])
  /\ UNCHANGED <<idleVars, written>>

\* the user leaves the form without saving
LeavePage ==
  /\ editor.page # "closed"
  /\ ~editor.pending
  /\ editor' = NoEditor
  /\ UNCHANGED <<idleVars, written>>

\* the user types into an input of item i, or into the tax rate input
changeItem(i, field, v) ==
  /\ editor.page # "closed"
  /\ ~editor.pending
  /\ i \in 1..Len(editor.items)
  /\ editor' = Edited([editor EXCEPT !.items[i][field] = v])
  /\ editor'.items # editor.items
  /\ UNCHANGED <<idleVars, written>>

changeTaxRate(v) ==
  /\ editor.page # "closed"
  /\ ~editor.pending
  /\ v # editor.taxRate
  /\ editor' = Edited([editor EXCEPT !.taxRate = v])
  /\ UNCHANGED <<idleVars, written>>

\* addItem: append(emptyInvoiceItem())
addItem ==
  /\ editor.page # "closed"
  /\ ~editor.pending
  /\ Len(editor.items) < MaxItems
  /\ editor' = Edited([editor EXCEPT !.items = Append(@, emptyInvoiceItem)])
  /\ UNCHANGED <<idleVars, written>>

\* mutant: the last item can be removed
removeItem_unguarded(index) ==
  /\ editor.page # "closed"
  /\ ~editor.pending
  /\ index \in 1..Len(editor.items)
  /\ editor' = Edited([editor EXCEPT
                         !.items = SubSeq(@, 1, index - 1)
                                     \o SubSeq(@, index + 1, Len(@))])
  /\ UNCHANGED <<idleVars, written>>

\* removeItem(index): refused with a toast on a list of one item
removeItem(index) ==
  /\ editor.page # "closed"
  /\ ~editor.pending
  /\ index \in 1..Len(editor.items)
  /\ IF Len(editor.items) > 1
     THEN editor' = Edited([editor EXCEPT
                              !.items = SubSeq(@, 1, index - 1)
                                          \o SubSeq(@, index + 1, Len(@))])
     ELSE editor' = [editor EXCEPT !.toast = "Cannot Remove Item"]
  /\ UNCHANGED <<idleVars, written>>

\* handleAddProduct(index, product): update(index, {...fields[index], ...});
\* fields[index] is the item as the field array last recorded it, so its
\* quantity q is a value the input held then
handleAddProduct(index, product, q) ==
  /\ editor.page # "closed"
  /\ ~editor.pending
  /\ index \in 1..Len(editor.items)
  /\ editor' = Edited([editor EXCEPT
                         !.items[index] =
                           [description |-> product.name,
                            quantity |-> q,
                            price |-> product.price,
                            total |-> RMul(product.price, ToNumber(q))]])
  /\ UNCHANGED <<idleVars, written>>

\* the effect on [watchedItems, watchedTaxRate]: one run
totalsEffect ==
  /\ editor.page # "closed"
  /\ editor.pending
  /\ IF editor.isCalculating
     THEN editor' = [editor EXCEPT !.pending = FALSE]
     ELSE IF Len(editor.items) > 0
     THEN LET upd == updatedItems(editor.items)
              t == calculateInvoiceTotals(upd, ToNumber(editor.taxRate))
              write == itemsNeedUpdate(upd, editor.items)
          IN editor' = [editor EXCEPT
                          !.subtotal = t.subtotal,
                          !.tax = t.tax,
                          !.totalAmount = t.totalAmount,
                          !.items = IF write THEN upd ELSE @,
                          !.pending = write,
                          !.isCalculating = FALSE,
                          !.runs = @ + 1]
     ELSE editor' = [editor EXCEPT !.pending = FALSE, !.runs = @ + 1]
  /\ UNCHANGED <<idleVars, written>>

\* invoiceFormSchema accepts the values of the form
SchemaAccepts(e) ==
  /\ Len(e.items) >= 1
  /\ \A i \in 1..Len(e.items) :
       /\ Present(e.items[i].description)
       /\ ToNumber(e.items[i].quantity).n > 0
       /\ ToNumber(e.items[i].price).n >= 0
       /\ IsNumber(e.items[i].total)
  /\ ToNumber(e.taxRate).n >= 0
  /\ IsNumber(e.subtotal) /\ IsNumber(e.tax) /\ IsNumber(e.totalAmount)

\* the data the resolver hands to onSubmit: the form values, coerced
SubmittedData(e, id) ==
  [id |-> id,
   items |-> [i \in 1..Len(e.items) |->
                [description |-> e.items[i].description,
                 quantity |-> ToNumber(e.items[i].quantity),
                 price |-> ToNumber(e.items[i].price),
                 total |-> e.items[i].total]],
   taxRate |-> ToNumber(e.taxRate),
   subtotal |-> e.subtotal, tax |-> e.tax, totalAmount |-> e.totalAmount]

\* NewInvoicePage: the form is submitted (ok: signed in and addDoc succeeds);
\* the record is added and the page left
NewInvoiceForm_onSubmit(ok) ==
  /\ editor.page = "new"
  /\ ~editor.pending
  /\ Cardinality(written) < MaxWritten
  /\ IF SchemaAccepts(editor) /\ ok
     THEN /\ written' = written \cup
                          {SubmittedData(editor, Cardinality(written) + 1)}
          /\ editor' = NoEditor
     ELSE UNCHANGED <<editor, written>>
  /\ UNCHANGED idleVars

\* EditInvoicePage: the form is submitted (ok: signed in and updateDoc
\* succeeds); the record is replaced and the page stays
EditInvoiceForm_onSubmit(ok) ==
  /\ editor.page = "edit"
  /\ ~editor.pending
  /\ IF SchemaAccepts(editor) /\ ok
     THEN written' = {r \in written : r.id # editor.id}
                       \cup {SubmittedData(editor, editor.id)}
     ELSE UNCHANGED written
  /\ UNCHANGED <<idleVars, editor>>

NextForm ==
  \/ NewInvoicePage_mount
  \/ \E rec \in written : EditInvoicePage_fetchInvoice(rec)
  \/ LeavePage
  \/ \E i \in 1..MaxItems, v \in QuantityChoices : changeItem(i, "quantity", v)
  \/ \E i \in 1..MaxItems, v \in PriceChoices : changeItem(i, "price", v)
  \/ \E i \in 1..MaxItems : changeItem(i, "description", <<"Widget">>)
  \/ \E v \in TaxRateChoices : changeTaxRate(v)
  \/ addItem
  \/ \E i \in 1..MaxItems : removeItem(i)
  \/ \E i \in 1..MaxItems, product \in Products, q \in QuantityChoices :
       handleAddProduct(i, product, q)
  \/ totalsEffect
  \/ \E ok \in BOOLEAN : NewInvoiceForm_onSubmit(ok)
  \/ \E ok \in BOOLEAN : EditInvoiceForm_onSubmit(ok)

SpecForm == InitForm /\ [][NextForm]_vars

\* ================================================================ claims
Inv0001 == <<"I", "N", "V", "-", "0", "0", "0", "1">>

\* the numeric suffix of an invoice number INV-<digits>
SuffixOf(num) == DigitsValue(SubSeq(num, Len(INV) + 1, Len(num)))

\* str is the decimal numeral of n, zero-padded to at least 4 digits
PaddedDecimal(str, n) ==
  /\ Len(str) >= 4
  /\ \A i \in 1..Len(str) : IsDigit(str[i])
  /\ DigitsValue(str) = n
  /\ Len(str) > 4 => str[1] # "0"

IsPaddedNumber(num, n) ==
  /\ startsWith(num, INV)
  /\ PaddedDecimal(SubSeq(num, Len(INV) + 1, Len(num)), n)

\* C1 (as claimed): of two invoice creations performed one after the other,
\* each undisturbed (its reads succeeded, nothing was written while it ran)
\* and with no settings save since the first began, the second proposes a
\* strictly greater numeric suffix than the first.
C1_AllocatorMonotonic ==
  \A i, j \in 1..Len(log) :
    (i < j /\ i <= log[j].base /\ log[i].quiet /\ log[j].quiet)
      => SuffixOf(log[i].number) < SuffixOf(log[j].number)

\* C2 (as claimed): over creations and deletions alone (no settings record
\* is ever saved, every read succeeds), no invoice number is persisted on two
\* different invoices, deleted ones included.
C2_NeverReused ==
  SettingsSnapshot(settings) = <<>> =>
    \A i, j \in 1..Len(log) :
      (i # j /\ log[i].quiet /\ log[j].quiet) => log[i].number # log[j].number

\* two forms whose proposals were both computed from the current contents of
\* the collections show the same proposal
SameProposal ==
  \A s, t \in Sessions :
    (pc[s] = "open" /\ pc[t] = "open" /\ clean[s] /\ clean[t])
      => form[s].invoiceNumber = form[t].invoiceNumber

\* an open form can always be submitted with success, whatever invoices exist
SubmitNeverRefused ==
  \A s \in Sessions :
    (pc[s] = "open" /\ Len(log) < MaxInvoices)
      => ENABLED (NewInvoicePage_onSubmit(s, TRUE, TRUE, "pending")
                  /\ pc'[s] = "closed")

\* a successful submit persists one more invoice, carrying the proposal
SubmitPersistsProposal ==
  \A s \in Sessions :
    (pc[s] = "open" /\ pc'[s] = "closed")
      => /\ invoices \subseteq invoices'
         /\ \E inv \in invoices' \ invoices :
              inv.invoiceNumber = form[s].invoiceNumber

\* C3: sessions that run getNextInvoiceNumber on the same contents get the
\* same proposal, and the submit neither re-validates nor re-reserves it: it
\* is never refused and persists exactly the proposed number.
C3_AllocationRace ==
  /\ [](SameProposal /\ SubmitNeverRefused)
  /\ [][SubmitPersistsProposal]_vars

\* C3 witness: two persisted invoices carry the same number, and the
\* proposal of the later one was computed before the earlier one was created
C3_RaceDuplicate ==
  \E a, b \in invoices :
    /\ a.id < b.id
    /\ a.invoiceNumber = b.invoiceNumber
    /\ log[b.id].base < a.id

\* C4 (as claimed): a successful new-invoice submit makes the stored counter
\* one greater, and a failed or unauthenticated submit leaves it unchanged.
C4_CounterAdvancesOnce ==
  [][\A s \in Sessions :
       /\ (/\ pc[s] = "open"
           /\ pc'[s] = "closed"
           /\ HasStoredCounter(SettingsSnapshot(settings)))
            => /\ HasStoredCounter(SettingsSnapshot(settings'))
               /\ SettingsSnapshot(settings')[1].nextInvoiceNumber =
                    SettingsSnapshot(settings)[1].nextInvoiceNumber + 1
       /\ \A signedIn \in BOOLEAN, writeOk \in BOOLEAN, st \in Statuses :
            (NewInvoicePage_onSubmit(s, signedIn, writeOk, st)
             /\ ~(signedIn /\ writeOk)) => settings' = settings]_vars

\* C5 (as claimed): the stored nextInvoiceNumber of a settings record never
\* decreases.
C5_CounterNeverDecreases ==
  [][\A u \in Sessions :
       settings[u].exists
         => settings'[u].nextInvoiceNumber >= settings[u].nextInvoiceNumber]_vars

\* C6: when the settings read succeeds and the first settings record holds
\* the counter n, the proposal is INV- followed by n zero-padded to at least
\* 4 digits, whatever invoices exist.
C6_StoredCounterFirst ==
  \A s \in Sessions :
    (pc[s] = "open" /\ clean[s] /\ SettingsSnapshot(settings) # <<>>)
      => LET n == SettingsSnapshot(settings)[1].nextInvoiceNumber
             num == form[s].invoiceNumber
         IN /\ IsPaddedNumber(num, n)
            /\ n = 7 => num = <<"I", "N", "V", "-", "0", "0", "0", "7">>
            /\ n = 1001 => num = <<"I", "N", "V", "-", "1", "0", "0", "1">>
            /\ n = 12345 => num = <<"I", "N", "V", "-", "1", "2", "3", "4", "5">>

\* C6 witness: INV-12345 is proposed from the stored counter 12345 while
\* invoices exist
C6_Witness ==
  \E s \in Sessions :
    /\ pc[s] = "open"
    /\ clean[s]
    /\ invoices # {}
    /\ SettingsSnapshot(settings) # <<>>
    /\ SettingsSnapshot(settings)[1].nextInvoiceNumber = 12345
    /\ form[s].invoiceNumber = <<"I", "N", "V", "-", "1", "2", "3", "4", "5">>

\* the numerically largest suffix among the existing invoices
MaxSuffix ==
  CHOOSE k \in {SuffixOf(d.invoiceNumber) : d \in invoices} :
    \A d \in invoices : SuffixOf(d.invoiceNumber) <= k

\* C7 (as claimed): with no stored counter and at least one invoice, the
\* proposal is INV-(k+1), zero-padded to at least 4 digits, where k is the
\* numerically largest suffix among the existing invoices.
C7_HighestSuffixPlusOne ==
  \A s \in Sessions :
    (pc[s] = "open" /\ clean[s] /\ SettingsSnapshot(settings) = <<>>
       /\ invoices # {})
      => IsPaddedNumber(form[s].invoiceNumber, MaxSuffix + 1)

\* C8: with no settings record and no invoice, a call whose reads succeed
\* proposes exactly INV-0001.
C8_Baseline ==
  \A s \in Sessions :
    (pc[s] = "open" /\ clean[s] /\ SettingsSnapshot(settings) = <<>>
       /\ invoices = {})
      => form[s].invoiceNumber = Inv0001

\* C8 witness: a form shows INV-0001 on empty collections after two reads
\* that succeeded
C8_Witness ==
  \E s \in Sessions :
    /\ pc[s] = "open"
    /\ clean[s]
    /\ SettingsSnapshot(settings) = <<>>
    /\ invoices = {}
    /\ form[s].invoiceNumber = Inv0001

\* C9: when the settings read or the invoice scan throws, the call still
\* ends with the form open on the proposal INV-0001, and neither collection
\* is written.
C9_FailSoft ==
  [][\A s \in Sessions :
       (fetchInitialData(s, FALSE) \/ getNextInvoiceNumber_scan(s, FALSE))
         => /\ pc'[s] = "open"
            /\ form'[s].invoiceNumber = Inv0001
            /\ settings' = settings
            /\ invoices' = invoices]_vars

\* C9 witness: no settings record was ever saved, the latest invoice created
\* still exists and existed when the proposal was computed, and yet the
\* proposal is INV-0001: the invoice scan threw
C9_Witness ==
  \E s \in Sessions :
    /\ pc[s] = "open"
    /\ SettingsSnapshot(settings) = <<>>
    /\ Len(log) >= 1
    /\ base[s] = Len(log)
    /\ \E inv \in invoices : inv.id = Len(log)
    /\ form[s].invoiceNumber = Inv0001

\* the line total of an item as the calculator reads it: a missing total
\* counts as nothing
LineTotal(it) == IF IsNumber(it.total) THEN it.total ELSE Zero

RECURSIVE SumLineTotals(_)
SumLineTotals(its) ==
  IF its = <<>> THEN Zero
  ELSE RAdd(SumLineTotals(SubSeq(its, 1, Len(its) - 1)),
            LineTotal(its[Len(its)]))

\* C10: subtotal is the sum of the line totals, tax is subtotal * taxRate /
\* 100 (taxRate 0 when omitted), totalAmount is subtotal + tax, the empty
\* list gives three zeros, and the result is that of the inputs as they are.
C10_TotalsFormula ==
  totals.done =>
    LET rate == IF taxRate = Undefined THEN Zero ELSE taxRate
    IN /\ totals.subtotal = SumLineTotals(items)
       /\ RMul(totals.tax, Num(100)) = RMul(totals.subtotal, rate)
       /\ totals.totalAmount = RAdd(totals.subtotal, totals.tax)
       /\ items = <<>> =>
            /\ totals.subtotal = Zero
            /\ totals.tax = Zero
            /\ totals.totalAmount = Zero

\* C10 witness: one item of line total 100 at tax rate 10 gives 100, 10, 110
C10_Witness ==
  /\ totals.done
  /\ Len(items) = 1
  /\ items[1].total = Num(100)
  /\ taxRate = Num(10)
  /\ totals.subtotal = Num(100)
  /\ totals.tax = Num(10)
  /\ totals.totalAmount = Num(110)

\* ------------------------------------------------ claims on the renderer
RECURSIVE SumQuantityTimesPrice(_)
SumQuantityTimesPrice(its) ==
  IF its = <<>> THEN Zero
  ELSE RAdd(SumQuantityTimesPrice(SubSeq(its, 1, Len(its) - 1)),
            RMul(its[Len(its)].quantity, its[Len(its)].price))

\* C11 (as claimed): the subtotal of the totals calculator is the sum of
\* quantity * price over the items, whatever their stored total fields hold.
C11_LineTotalsRecomputed ==
  totals.done => totals.subtotal = SumQuantityTimesPrice(items)

Rendered == {docs[i] : i \in 1..Len(docs)}

\* the drawing calls of a rendered document that belong to one block
InstrsOf(d, block) == SelectSeq(d.doc.instrs, LAMBDA i : i.block = block)

\* C12 (as claimed): a document is laid out RTL exactly when the language of
\* its invoice is Arabic, and the language marker of its name follows the
\* invoice too, whatever language the settings record holds at the time.
C12_DirectionFromInvoice ==
  \A d \in Rendered :
    LET rtl == d.invoice.language = "ar"
    IN /\ d.doc.dir = (IF rtl THEN "rtl" ELSE "ltr")
       /\ ~d.doc.threw =>
            d.doc.name[Len(d.doc.name) - 1] = (IF rtl THEN "AR" ELSE "EN")

\* the same settings record with the other language
OtherLanguage(st) ==
  [st EXCEPT !.language = IF st.language = "ar" THEN "en" ELSE "ar"]

\* b is placed as the mirror image of a
IsMirror(a, b) ==
  IF a.op = "text"
  THEN /\ b.x = pageWidth - a.x
       /\ b.align = (IF a.align = "left" THEN "right"
                     ELSE IF a.align = "right" THEN "left" ELSE "center")
  ELSE b.x = pageWidth - a.x - a.w

\* C13 (as claimed): every text block and box of a document, the centered
\* footer and the item table apart, is placed in the other direction as the
\* mirror image of its placement in this one.
C13_MirroringTotal ==
  \A d \in Rendered :
    LET other == generatePdf(d.invoice, OtherLanguage(d.settings), d.layout,
                             d.at).instrs
    IN /\ Len(other) = Len(d.doc.instrs)
       /\ \A i \in 1..Len(other) :
            d.doc.instrs[i].block \notin {"footer", "table"}
              => IsMirror(d.doc.instrs[i], other[i])

\* C14 (as claimed): two calls of generatePdf with the same invoice and the
\* same settings record give the same drawing calls and the same name.
C14_RenderDeterministic ==
  \A d, e \in Rendered :
    (d.invoice = e.invoice /\ d.settings = e.settings /\ d.layout = e.layout)
      => d.doc = e.doc

\* the invoice record holds its three amounts
HasAmounts(inv) ==
  inv.subtotal # Undefined /\ inv.tax # Undefined
    /\ inv.totalAmount # Undefined

FieldOrder == <<"address", "email", "phone", "website", "taxNumber">>

FieldValue(st, key) ==
  CASE key = "address" -> st.address
    [] key = "email" -> st.email
    [] key = "phone" -> st.phone
    [] key = "website" -> st.website
    [] key = "taxNumber" -> st.taxNumber

\* the blocks of the contact lines of a document, in the order drawn
ContactLinesOf(d) ==
  LET ins == SelectSeq(d.doc.instrs, LAMBDA i : i.block \in OptionalFields)
  IN [i \in 1..Len(ins) |-> ins[i].block]

\* C16: the contact lines are those of the present fields, in the fixed
\* order, one each; they are 5 apart from where the header ended, and the
\* title is drawn 5 times their number plus 10 below it; a record without
\* website gives no website line and a block 5 shorter than with one.
C16_ContactOmission ==
  \A d \in Rendered :
    LET st == d.settings
        top == HeaderBlock(st, margin).y
        present == SelectSeq(FieldOrder, LAMBDA k : Present(FieldValue(st, k)))
        lines == SelectSeq(d.doc.instrs, LAMBDA i : i.block \in OptionalFields)
        title == InstrsOf(d, "title")[1]
        withSite == generatePdf(d.invoice,
                                [st EXCEPT !.website = <<"acme.test">>],
                                d.layout, d.at)
        titleWithSite == SelectSeq(withSite.instrs,
                                   LAMBDA i : i.block = "title")[1]
    IN /\ ContactLinesOf(d) = present
       /\ \A i \in 1..Len(lines) : lines[i].y = top + 5 * (i - 1)
       /\ title.y = top + 5 * Len(present) + 10
       /\ ~Present(st.website) =>
            /\ Len(InstrsOf(d, "website")) = 0
            /\ titleWithSite.y = title.y + 5

\* C16 witness: a record with every optional field but website gives four
\* lines and the title at 20 + 15 + 4 * 5 + 10
C16_Witness ==
  \E d \in Rendered :
    /\ d.settings = ContactSettings(OptionalFields \ {"website"})
    /\ ContactLinesOf(d) = <<"address", "email", "phone", "taxNumber">>
    /\ InstrsOf(d, "title")[1].y = 65

\* C17 (as claimed): every page of a saved document carries exactly one
\* footer line, centered, 10 above the bottom edge.
C17_FooterEveryPage ==
  \A d \in Rendered :
    ~d.doc.threw =>
      \A p \in 1..d.doc.pages :
        LET fs == SelectSeq(d.doc.instrs,
                            LAMBDA i : i.block = "footer" /\ i.page = p)
        IN /\ Len(fs) = 1
           /\ fs[1].align = "center"
           /\ fs[1].x = pageWidth \div 2
           /\ fs[1].y = pageHeight - 10

\* txt is a symbol, a space, and a decimal numeral with two decimals
IsSymbolAndTwoDecimals(txt, symbol) ==
  /\ Len(txt) >= 6
  /\ txt[1] = symbol
  /\ txt[2] = " "
  /\ txt[Len(txt) - 2] = "."
  /\ IsDigit(txt[Len(txt) - 1])
  /\ IsDigit(txt[Len(txt)])
  /\ \A i \in 3..(Len(txt) - 3) : IsDigit(txt[i]) \/ (i = 3 /\ txt[i] = "-")

\* the fixed symbol of each currency code of the closed set
SymbolOf(code) ==
  CASE code = "SAR" -> "SAR-symbol"
    [] code = "USD" -> "$"
    [] code = "EUR" -> "EUR-symbol"
    [] code = "GBP" -> "GBP-symbol"
    [] OTHER -> "$"

\* C18 (as claimed): generatePdf never fails in formatCurrency, also when
\* the invoice record lacks subtotal, tax or totalAmount, and every amount
\* of the summary is drawn as the symbol of the currency code (the default
\* symbol outside the closed set) followed by the amount with two decimals.
C18_CurrencyTotal ==
  \A d \in Rendered :
    LET code == IF d.settings.currency # "" THEN d.settings.currency
                ELSE "USD"
    IN /\ ~d.doc.threw
       /\ \A b \in {"subtotalValue", "taxValue", "totalValue"} :
            /\ Len(InstrsOf(d, b)) = 1
            /\ IsSymbolAndTwoDecimals(InstrsOf(d, b)[1].text, SymbolOf(code))

\* C19 (as claimed): a date that is absent or cannot be parsed is drawn as
\* "N/A"; only a valid date is drawn as a locale-formatted date.
C19_DateTotal ==
  \A d \in Rendered :
    /\ d.invoice.date.kind \in {"absent", "unparseable", "throwing"}
         => InstrsOf(d, "date")[1].text[2] = "N/A"
    /\ d.invoice.dueDate.kind \in {"absent", "unparseable", "throwing"}
         => InstrsOf(d, "dueDate")[1].text[2] = "N/A"
    /\ d.invoice.date.kind \in {"timestamp", "date"}
         => InstrsOf(d, "date")[1].text[2] \in {"en-US", "ar-SA"}

\* the language marker of a document laid out in direction dir
LangOf(dir) == IF dir = "rtl" THEN "AR" ELSE "EN"

C21_HeaderBlock ==
  \A d \in Rendered :
    LET hs == InstrsOf(d, "header")
        logo == d.settings.logo # "none"
    IN /\ Len(hs) = 1
       /\ hs[1].op = (IF logo THEN "image" ELSE "text")
       /\ InstrsOf(d, "title")[1].y =
            margin + (IF logo THEN 25 ELSE 15)
              + 5 * Len(ContactLinesOf(d)) + 10

\* the blocks of a document, in the order drawn
BlocksOf(d) == [i \in 1..Len(d.doc.instrs) |-> d.doc.instrs[i].block]

\* the position of the first drawing call of a block
IndexOf(d, block) ==
  CHOOSE i \in 1..Len(d.doc.instrs) :
    /\ d.doc.instrs[i].block = block
    /\ \A j \in 1..(i - 1) : d.doc.instrs[j].block # block

\* C22: the summary box is 70 wide and 45 high, its far edge on the right
\* margin for LTR and its near edge on the left margin for RTL; it is
\* followed by the subtotal, tax and total rows 10, 20 and 30 below its top,
\* the tax label carrying the tax rate of the invoice; labels and values
\* swap columns between LTR and RTL; and the next block starts 45 below the
\* top of the box.
C22_SummaryBox ==
  \A d \in Rendered :
    HasAmounts(d.invoice) =>
      LET rtl == d.doc.dir = "rtl"
          box == InstrsOf(d, "summaryBox")[1]
          k == IndexOf(d, "summaryBox")
          row == [i \in 1..6 |-> d.doc.instrs[k + i]]
          next == IF Present(d.invoice.notes) THEN "notesLabel"
                  ELSE "termsLabel"
      IN /\ Len(InstrsOf(d, "summaryBox")) = 1
         /\ box.w = 70
         /\ box.h = 3 * 15
         /\ IF rtl THEN box.x = margin ELSE box.x + box.w = pageWidth - margin
         /\ [i \in 1..6 |-> row[i].block] =
              << "subtotalLabel", "subtotalValue", "taxLabel", "taxValue",
                 "totalLabel", "totalValue" >>
         /\ \A i \in 1..6 : row[i].y = box.y + 10 * ((i + 1) \div 2)
         /\ \A i \in {1, 3, 5} :
              /\ row[i].x = (IF rtl THEN box.x + box.w - 5 ELSE box.x + 5)
              /\ row[i].align = (IF rtl THEN "right" ELSE "left")
         /\ \A i \in {2, 4, 6} :
              /\ row[i].x = (IF rtl THEN box.x + 5 ELSE box.x + box.w - 5)
              /\ row[i].align = (IF rtl THEN "left" ELSE "right")
         /\ d.invoice.taxRate = Num(10) =>
              SubSeq(row[3].text, 2, 5) = <<" (", "1", "0", "%):">>
         /\ d.invoice.taxRate = Rat(17, 2) =>
              SubSeq(row[3].text, 2, 6) = <<" (", "8", ".", "5", "%):">>
         /\ IF Present(d.invoice.notes)
               \/ Present(d.settings.termsAndConditions)
            THEN InstrsOf(d, next)[1].y = box.y + 45
            ELSE d.doc.yPos = box.y + 45

\* C22 witness: an RTL document with the box on the left margin, the labels
\* in its right column, and the notes 45 below its top
C22_Witness ==
  \E d \in Rendered :
    /\ d.doc.dir = "rtl"
    /\ ~d.doc.threw
    /\ InstrsOf(d, "summaryBox")[1].x = margin
    /\ InstrsOf(d, "subtotalLabel")[1].x = margin + 65
    /\ InstrsOf(d, "subtotalValue")[1].x = margin + 5
    /\ Len(InstrsOf(d, "notesLabel")) = 1
    /\ InstrsOf(d, "notesLabel")[1].y = InstrsOf(d, "summaryBox")[1].y + 45

\* the notes block as claimed and as coded: heading and body when the text
\* is not empty, the cursor then 5 + 5 per line + 10 further; nothing drawn
\* and the cursor unchanged when it is empty
NotesAsClaimed(d, start) ==
  IF Present(d.invoice.notes)
  THEN /\ Len(InstrsOf(d, "notesLabel")) = 1
       /\ Len(InstrsOf(d, "notes")) = 1
       /\ InstrsOf(d, "notesLabel")[1].y = start
       /\ InstrsOf(d, "notes")[1].y = start + 5
  ELSE /\ Len(InstrsOf(d, "notesLabel")) = 0
       /\ Len(InstrsOf(d, "notes")) = 0

AfterNotes(d, start) ==
  IF Present(d.invoice.notes) THEN start + 5 + 5 * Len(d.invoice.notes) + 10
  ELSE start

\* the terms block drawn at the cursor the notes block left
TermsDrawn(d, start) ==
  IF Present(d.settings.termsAndConditions)
  THEN /\ Len(InstrsOf(d, "termsLabel")) = 1
       /\ Len(InstrsOf(d, "terms")) = 1
       /\ InstrsOf(d, "termsLabel")[1].y = start
       /\ InstrsOf(d, "terms")[1].y = start + 5
  ELSE /\ Len(InstrsOf(d, "termsLabel")) = 0
       /\ Len(InstrsOf(d, "terms")) = 0

\* C23 (as claimed): each of the notes and terms blocks is drawn only when
\* its text is not empty, and when drawn advances the cursor by the heading
\* height, 5 per wrapped line and the spacing 10, the terms block like the
\* notes block.
C23_NotesAndTerms_asClaimed ==
  \A d \in Rendered :
    ~d.doc.threw =>
      LET start == InstrsOf(d, "summaryBox")[1].y + 45
          mid == AfterNotes(d, start)
      IN /\ NotesAsClaimed(d, start)
         /\ TermsDrawn(d, mid)
         /\ d.doc.yPos =
              (IF Present(d.settings.termsAndConditions)
               THEN mid + 5 + 5 * Len(d.settings.termsAndConditions) + 10
               ELSE mid)

\* C23 (amended): each of the two blocks is drawn only when its text is not
\* empty and leaves the cursor unchanged otherwise; the notes block advances
\* the cursor by 5 + 5 per wrapped line + 10; the terms block, the last one
\* placed by the cursor, advances it by the heading height 5 alone.
C23_NotesAndTerms ==
  \A d \in Rendered :
    ~d.doc.threw =>
      LET start == InstrsOf(d, "summaryBox")[1].y + 45
          mid == AfterNotes(d, start)
      IN /\ NotesAsClaimed(d, start)
         /\ TermsDrawn(d, mid)
         /\ d.doc.yPos =
              (IF Present(d.settings.termsAndConditions) THEN mid + 5
               ELSE mid)

\* C23 witness: a document with notes of two lines and the terms heading
\* 5 + 2 * 5 + 10 below the notes heading
C23_Witness ==
  \E d \in Rendered :
    /\ ~d.doc.threw
    /\ Len(d.invoice.notes) = 2
    /\ Len(InstrsOf(d, "notesLabel")) = 1
    /\ Len(InstrsOf(d, "termsLabel")) = 1
    /\ InstrsOf(d, "termsLabel")[1].y = InstrsOf(d, "notesLabel")[1].y + 25
    /\ d.doc.yPos = InstrsOf(d, "termsLabel")[1].y + 5

\* the lowest point of a drawing call: the bottom of a box, the last line of
\* a text
BottomOf(i) ==
  IF i.op = "text" THEN i.y + 5 * (IF Len(i.text) > 0 THEN Len(i.text) - 1 ELSE 0)
  ELSE i.y + i.h

\* C25 (as claimed): the summary box, the notes and the terms lie above the
\* bottom margin of their page, and so above the footer line.
C25_NoOverflow ==
  \A d \in Rendered :
    ~d.doc.threw =>
      \A k \in 1..Len(d.doc.instrs) :
        d.doc.instrs[k].block \in {"summaryBox", "notesLabel", "notes",
                                   "termsLabel", "terms"}
          => /\ d.doc.instrs[k].y <= pageHeight - margin
             /\ (IF d.doc.instrs[k].block \in {"notes", "terms"}
                 THEN BottomOf(d.doc.instrs[k])
                 ELSE d.doc.instrs[k].y + d.doc.instrs[k].h)
                  <= pageHeight - margin

\* C27 (as claimed): the quantity, price and total columns of the item table
\* have fixed widths and are right-aligned in both directions; the
\* description column alone is flexible and follows the direction.
C27_TableColumns ==
  \A d \in Rendered :
    \A k \in 1..Len(d.doc.instrs) :
      d.doc.instrs[k].op = "table" =>
        LET cols == d.doc.instrs[k].columns
        IN /\ Len(cols) = 4
           /\ cols[1].auto
           /\ cols[1].halign = "inherit"
           /\ d.doc.instrs[k].align =
                (IF d.doc.dir = "rtl" THEN "right" ELSE "left")
           /\ \A c \in 2..4 :
                /\ ~cols[c].auto
                /\ cols[c].cellWidth > 0
                /\ cols[c].halign = "right"

\* C28 (as claimed): the terms block of a document shows the terms text
\* stored on its invoice, and is absent when that text is empty.
C28_InvoiceTermsRendered ==
  \A d \in Rendered :
    ~d.doc.threw =>
      IF Present(d.invoice.terms)
      THEN /\ Len(InstrsOf(d, "terms")) = 1
           /\ InstrsOf(d, "terms")[1].text = d.invoice.terms
      ELSE Len(InstrsOf(d, "terms")) = 0

\* C29 (as claimed): after a user saved nextInvoiceNumber = n, a call of
\* getNextInvoiceNumber by that user whose read succeeds proposes INV-n,
\* zero-padded, also when other users hold settings records.
C29_OwnCounterRead ==
  \A s \in Sessions :
    (pc[s] = "open" /\ clean[s] /\ settings[s].exists)
      => IsPaddedNumber(form[s].invoiceNumber, settings[s].nextInvoiceNumber)

\* -------------------------------------------------- claims on the forms
\* C24: every record written by the new-invoice or the edit-invoice submit
\* has total = quantity * price on every item, subtotal the sum of those,
\* tax = subtotal * taxRate / 100 and totalAmount = subtotal + tax, for the
\* items and the tax rate written with it.
C24_DerivedFieldsConsistent ==
  \A r \in written :
    /\ \A i \in 1..Len(r.items) :
         r.items[i].total = RMul(r.items[i].quantity, r.items[i].price)
    /\ r.subtotal = SumQuantityTimesPrice(r.items)
    /\ RMul(r.tax, Num(100)) = RMul(r.subtotal, r.taxRate)
    /\ r.totalAmount = RAdd(r.subtotal, r.tax)

\* C24 witness: a record written by the edit form with two items, 2 x 50 and
\* 1 x 50, at tax rate 10: subtotal 150, tax 15, total 165
C24_Witness ==
  \E r \in written :
    /\ editor.page = "edit"
    /\ Len(r.items) = 2
    /\ r.items[1].total = Num(100)
    /\ r.items[2].total = Num(50)
    /\ r.taxRate = Num(10)
    /\ r.subtotal = Num(150)
    /\ r.tax = Num(15)
    /\ r.totalAmount = Num(165)

\* C26: a form on display holds at least one item, a remove on a list of one
\* item leaves the list as it is, and every record written holds at least
\* one item.
C26_AtLeastOneItem ==
  /\ [](editor.page # "closed" => Len(editor.items) >= 1)
  /\ [](\A r \in written : Len(r.items) >= 1)
  /\ [][\A i \in 1..MaxItems :
          (removeItem(i) /\ Len(editor.items) = 1)
            => editor'.items = editor.items]_vars

\* C26 witness: a remove was refused on a list of one item
C26_Witness ==
  /\ editor.page # "closed"
  /\ editor.toast = "Cannot Remove Item"
  /\ Len(editor.items) = 1

\* C30: after an edit the effect runs at most twice; its flag is false
\* whenever it has returned; and once it is no longer scheduled the form is
\* at a fixpoint: every line total is quantity * price and the three amounts
\* are those of the calculator, so that a further run changes nothing.
C30_TotalsEffectTerminates ==
  editor.page # "closed" =>
    /\ editor.runs <= 2
    /\ ~editor.isCalculating
    /\ ~editor.pending =>
         LET t == calculateInvoiceTotals(editor.items,
                                         ToNumber(editor.taxRate))
         IN /\ \A i \in 1..Len(editor.items) :
                 editor.items[i].total =
                   RMul(ToNumber(editor.items[i].quantity),
                        ToNumber(editor.items[i].price))
            /\ editor.subtotal = t.subtotal
            /\ editor.tax = t.tax
            /\ editor.totalAmount = t.totalAmount

\* C30 witness: the effect ran twice after an edit that left the quantity
\* input empty, and is at rest
C30_Witness ==
  /\ editor.page # "closed"
  /\ editor.runs = 2
  /\ ~editor.pending
  /\ \E i \in 1..Len(editor.items) :
       /\ editor.items[i].quantity = EmptyInput
       /\ editor.items[i].price = Num(50)
       /\ editor.items[i].total = Zero

====
